---------------------------- MODULE Spec2Model ----------------------------
(***************************************************************************)
(* LSH, a tiny Unix shell: the read / tokenize / dispatch / launch loop of *)
(* main.c and shell_funcs.c as a state machine.                            *)
(*                                                                         *)
(* Characters are one-character strings; "\n", "\t", "\r" and " " stand    *)
(* for themselves, "BEL" for '\a', "NUL" for the string terminator and     *)
(* "EOF" for getchar()'s end-of-stream value.  Input lines are text lines: *)
(* they hold no NUL character.  C strings and arrays are sequences; a C    *)
(* index i is element i + 1 of the sequence.                               *)
(***************************************************************************)
EXTENDS Integers, Sequences, FiniteSets, TLC

(***************************************************************************)
(* Bounds of the model.                                                    *)
(***************************************************************************)
\* lines the terminal delivers before the input stream ends
MaxLines == 2
\* the longest line is MaxBlocks * LSH_RL_BUFSIZE + 1 characters
MaxBlocks == 2
\* the largest token count is MaxTokBlocks * LSH_TOK_BUFSIZE + 1 tokens
MaxTokBlocks == 2

(***************************************************************************)
(* Program constants.                                                      *)
(***************************************************************************)
LSH_RL_BUFSIZE == 1024
LSH_TOK_BUFSIZE == 64
\* faulty variant: the bell is not a delimiter
LSH_TOK_DELIM_NoBell == {" ", "\t", "\r", "\n"}
LSH_TOK_DELIM == {" ", "\t", "\r", "\n", "BEL"}
EXIT_SUCCESS == 0
EXIT_FAILURE == 1
\* the null pointer, as a token (an index into the line) and as a heap pointer
NULL == -1
NUL == "NUL"
EOF == "EOF"
NEWLINE == "\n"

builtin_str == << <<"c", "d">>, <<"h", "e", "l", "p">>, <<"e", "x", "i", "t">> >>
builtin_func == <<"lsh_cd", "lsh_help", "lsh_exit">>
lsh_num_builtins == Len(builtin_str)

(***************************************************************************)
(* The environment: what the terminal may type, which programs and         *)
(* directories exist, how a child may end.                                 *)
(***************************************************************************)
ShortLines ==
    { <<>>,
      <<" ">>,
      <<"\t", "BEL", "\r", " ">>,
      <<"e", "x", "i", "t">>,
      <<" ", "e", "x", "i", "t", " ", " ", "x">>,
      <<"e", "x", "i">>,
      <<"c", "d">>,
      <<"c", "d", "\t", "d", " ">>,
      <<"c", "d", " ", "q">>,
      <<"C", "D">>,
      <<"c", "d", "x">>,
      <<"h", "e", "l", "p">>,
      <<"l", "s">>,
      <<"l", "s", " ", " ", "d">>,
      <<"q">> }

\* a line of n characters: words "a" separated by single spaces
Spaced(n) == [i \in 1..n |-> IF i % 2 = 1 THEN "a" ELSE " "]
\* a line of n characters that is one word
Solid(n) == [i \in 1..n |-> "l"]

\* lines around the growth steps of the reader's buffer
LongLines ==
    { Solid(k * LSH_RL_BUFSIZE + d) : k \in 1..MaxBlocks, d \in {-1, 0, 1} }

\* lines around the growth steps of the tokenizer's array: n words take 2n-1 characters
ManyTokenLines ==
    { Spaced(2 * (k * LSH_TOK_BUFSIZE + d) - 1) : k \in 1..MaxTokBlocks, d \in {-1, 0, 1} }

Lines == ShortLines \cup LongLines \cup ManyTokenLines

\* programs execvp can find
Programs == { <<"l", "s">>, <<"a">> }
\* lines that may be typed ahead, behind the line being read
TypeAheadLines == { <<>>, <<"e", "x", "i", "t">>, <<"q">> }

\* the process ids fork may return to the interpreter
Pids == {1, 2}

\* directories chdir can enter
Dirs == { <<"d">> }
\* the working directory at start
HomeDir == <<"h">>
ExitCodes == {0, 1}
Signals == {"SIGKILL"}
\* what an int that was never written may hold, as the wait macros read it
WaitKinds == {"exited", "signaled", "stopped", "other"}

VARIABLES
    pc,             \* the interpreter's position
    exitCode,       \* the interpreter's exit code once pc = "exited"
    stdin,          \* characters typed and not yet read
    closed,         \* the input stream has ended: getchar returns EOF once stdin is empty
    typed,          \* lines delivered so far
    stream0,        \* history: the unread input as the current read found or received it
    buffer,         \* the heap block of lsh_read_line's buffer / lsh_loop's line
    rl_bufsize,     \* lsh_read_line's bufsize
    rl_position,    \* lsh_read_line's position
    tokens,         \* the heap block of lsh_split_line's tokens / lsh_loop's args
    tok_bufsize,    \* lsh_split_line's bufsize
    tok_position,   \* lsh_split_line's position
    token,          \* lsh_split_line's token
    saveptr,        \* strtok's saved position
    status,         \* lsh_loop's status
    cwd,            \* the interpreter's working directory
    pid,            \* lsh_launch's pid
    wstatus,        \* lsh_launch's status
    child,          \* the child process of the current launch
    sigchld,        \* the disposition of SIGCHLD the interpreter inherited: "default" or
                    \* "ignored"; "unobserved" until the first fork, the first step to depend on it
    out,            \* standard output since (and including) the last prompt
    err,            \* the error stream since the last prompt
    hist            \* history of the current iteration

vars == << pc, exitCode, stdin, closed, typed, stream0, buffer, rl_bufsize,
           rl_position, tokens, tok_bufsize, tok_position, token, saveptr,
           status, cwd, pid, wstatus, child, sigchld, out, err, hist >>

ioVars == << stdin, closed, typed, stream0 >>
rlVars == << buffer, rl_bufsize, rl_position >>
slVars == << tokens, tok_bufsize, tok_position, token, saveptr >>
procVars == << pid, wstatus, child >>

(***************************************************************************)
(* Heap blocks.                                                            *)
(***************************************************************************)
\* frees counts the calls of free on the block
NoBlock == [st |-> "none", cap |-> 0, data |-> <<>>, frees |-> 0]

\* malloc(n): a fresh block of n cells, none written yet
Malloc(n) == [st |-> "live", cap |-> n, data |-> <<>>, frees |-> 0]

\* faulty variant: a new block is allocated and the old contents are not carried over
ReallocFresh(b, n) == [st |-> "live", cap |-> n, data |-> <<>>, frees |-> 0]

\* realloc(b, n), successful: the block has n cells and keeps what was stored
Realloc(b, n) ==
    [b EXCEPT !.cap = n,
              !.data = IF Len(b.data) <= n THEN b.data ELSE SubSeq(b.data, 1, n)]

\* free(b)
Free(b) == [b EXCEPT !.st = "freed", !.frees = @ + 1]

\* b[i] = v
Store(b, i, v) ==
    [b EXCEPT !.data = IF i < Len(b.data) THEN [b.data EXCEPT ![i + 1] = v]
                       ELSE Append(b.data, v)]

\* strcspn: the least index i >= s of the NUL-terminated string d with d[i] in C or NUL
FirstIn(d, s, C) ==
    CHOOSE i \in s..(Len(d) - 1) :
        /\ d[i + 1] \in C \cup {NUL}
        /\ \A j \in s..(i - 1) : d[j + 1] \notin C \cup {NUL}

\* strspn: the least index i >= s of the NUL-terminated string d with d[i] not in C
FirstNotIn(d, s, C) ==
    CHOOSE i \in s..(Len(d) - 1) :
        /\ d[i + 1] \notin C
        /\ \A j \in s..(i - 1) : d[j + 1] \in C

\* the C string that starts at index t of d
CStr(d, t) == SubSeq(d, t + 1, FirstIn(d, t, {}))

\* faulty variant: leading delimiters are not skipped, as strsep does
StrtokNoSkip(d, s) ==
    IF d[s + 1] = NUL
    THEN [tok |-> NULL, save |-> s, data |-> d]
    ELSE LET e == FirstIn(d, s, LSH_TOK_DELIM)
         IN  IF d[e + 1] = NUL
             THEN [tok |-> s, save |-> e, data |-> d]
             ELSE [tok |-> s, save |-> e + 1, data |-> [d EXCEPT ![e + 1] = NUL]]

\* strtok over the string d, scanning from index s
Strtok(d, s) ==
    LET b == FirstNotIn(d, s, LSH_TOK_DELIM)
    IN  IF d[b + 1] = NUL
        THEN [tok |-> NULL, save |-> b, data |-> d]
        ELSE LET e == FirstIn(d, b, LSH_TOK_DELIM)
             IN  IF d[e + 1] = NUL
                 THEN [tok |-> b, save |-> e, data |-> d]
                 ELSE [tok |-> b, save |-> e + 1, data |-> [d EXCEPT ![e + 1] = NUL]]

\* no child process; a child is the interpreter's copy (st = "shell", at pc) until execvp
\* replaces its image, then "running" or "stopped", then a "zombie" until it is waited
\* for, then "gone"
NoChild ==
    [st |-> "none", pid |-> 0, pc |-> "-", argv0 |-> <<>>, cwd |-> <<>>, how |-> "-",
     code |-> 0, unreported |-> FALSE, execFailed |-> FALSE]

NoHist == [called |-> "none", forked |-> FALSE, forkFailed |-> FALSE, waited |-> FALSE,
           waitFailed |-> FALSE, reported |-> "none", allocFailed |-> "none",
           chdirTried |-> FALSE, cwd0 |-> HomeDir]

Init ==
    /\ pc = "prompt"
    /\ exitCode = NULL
    /\ stdin = <<>>
    /\ closed = FALSE
    /\ typed = 0
    /\ stream0 = <<>>
    /\ buffer = NoBlock
    /\ rl_bufsize = 0
    /\ rl_position = 0
    /\ tokens = NoBlock
    /\ tok_bufsize = 0
    /\ tok_position = 0
    /\ token = NULL
    /\ saveptr = NULL
    /\ status \in {0, 1}
    /\ cwd = HomeDir
    /\ pid = 0
    /\ wstatus = "unset"
    /\ child = NoChild
    /\ sigchld = "unobserved"
    /\ out = <<>>
    /\ err = <<>>
    /\ hist = NoHist

\* exit(code) in the interpreter
Exit(code) ==
    /\ pc' = "exited"
    /\ exitCode' = code

\* faulty variant: the line is released before it is dispatched
LoopNextFreesFirst(stmt) ==
    CASE stmt = "lsh_read_line" -> "sl_malloc"
      [] stmt = "lsh_split_line" -> "free_line"
      [] stmt = "free_line" -> "execute"
      [] stmt = "lsh_execute" -> "free_args"
      [] stmt = "free_args" -> "loop_test"

\* faulty variant: the argument vector is not released
LoopNextKeepsArgs(stmt) ==
    CASE stmt = "lsh_read_line" -> "sl_malloc"
      [] stmt = "lsh_split_line" -> "execute"
      [] stmt = "lsh_execute" -> "free_line"
      [] stmt = "free_line" -> "loop_test"
      [] stmt = "free_args" -> "loop_test"

\* the body of lsh_loop's do ... while: where control is after statement stmt returns
LoopNext(stmt) ==
    CASE stmt = "lsh_read_line" -> "sl_malloc"
      [] stmt = "lsh_split_line" -> "execute"
      [] stmt = "lsh_execute" -> "free_line"
      [] stmt = "free_line" -> "free_args"
      [] stmt = "free_args" -> "loop_test"

(***************************************************************************)
(* lsh_loop, first half: the prompt.                                       *)
(***************************************************************************)
Prompt ==
    /\ pc = "prompt"
    /\ pc' = "rl_malloc"
    /\ out' = <<"> ">>
    /\ err' = <<>>
    /\ stream0' = stdin
    /\ hist' = [NoHist EXCEPT !.cwd0 = cwd]
    /\ child' = NoChild
    /\ UNCHANGED << exitCode, stdin, closed, typed, rlVars, slVars, status, cwd,
                    pid, wstatus, sigchld >>

(***************************************************************************)
(* The terminal: delivers input when the reader waits for it: one line     *)
(* with its newline, or without one as the last characters of the stream,  *)
(* and at the start possibly a second line typed ahead.  Lines outside     *)
(* ShortLines come first in a session.                                     *)
(***************************************************************************)
TerminalInput ==
    /\ pc = "rl_loop"
    /\ stdin = <<>>
    /\ ~closed
    /\ \/ \E l \in Lines :
            /\ typed < MaxLines
            /\ l \notin ShortLines => typed = 0
            /\ stdin' = Append(l, NEWLINE)
            /\ typed' = typed + 1
            /\ UNCHANGED closed
       \/ \E l \in Lines :
            /\ l \notin ShortLines => typed = 0
            /\ stdin' = l
            /\ typed' = typed + 1
            /\ closed' = TRUE
       \/ \E l \in ShortLines, m \in TypeAheadLines, nl \in BOOLEAN :
            /\ typed = 0
            /\ typed + (IF nl THEN 2 ELSE 1) <= MaxLines
            /\ stdin' = Append(l, NEWLINE) \o (IF nl THEN Append(m, NEWLINE) ELSE m)
            /\ typed' = typed + 2
            /\ closed' = ~nl
    /\ stream0' = stdin'
    /\ UNCHANGED << pc, exitCode, rlVars, slVars, status, cwd, procVars,
                    sigchld, out, err, hist >>

(***************************************************************************)
(* lsh_read_line.                                                          *)
(***************************************************************************)
\* getchar(): the next character of the stream, EOF once the stream has ended
Getchar == IF stdin # <<>> THEN Head(stdin) ELSE EOF

\* getchar() returns: a character is there, or the stream has ended
GetcharReady == stdin # <<>> \/ closed

\* c == EOF || c == '\n'
RlEndOfLine(c) == c = EOF \/ c = NEWLINE

\* faulty variant: position > bufsize
RlFullLate(position, bufsize) == position > bufsize

\* position >= bufsize
RlFull(position, bufsize) == position >= bufsize

\* bufsize += LSH_RL_BUFSIZE
RlGrown(bufsize) == bufsize + LSH_RL_BUFSIZE

\* faulty variant: the error is reported and the function returns instead of exiting
AllocationErrorReturns(where) ==
    /\ err' = Append(err, "lsh: allocation error")
    /\ hist' = [hist EXCEPT !.allocFailed = where]
    /\ pc' = "free_line"
    /\ UNCHANGED exitCode

\* fprintf(stderr, "lsh: allocation error\n"); exit(EXIT_FAILURE);
AllocationError(where) ==
    /\ err' = Append(err, "lsh: allocation error")
    /\ hist' = [hist EXCEPT !.allocFailed = where]
    /\ Exit(EXIT_FAILURE)

\* the declarations and malloc(bufsize) of lsh_read_line
RlMalloc ==
    /\ pc = "rl_malloc"
    /\ rl_bufsize' = LSH_RL_BUFSIZE
    /\ rl_position' = 0
    /\ \/ /\ buffer' = Malloc(LSH_RL_BUFSIZE)
          /\ pc' = "rl_loop"
          /\ UNCHANGED << exitCode, err, hist >>
       \/ /\ buffer' = NoBlock
          /\ AllocationError("rl_malloc")
    /\ UNCHANGED << ioVars, slVars, status, cwd, procVars, sigchld, out >>

\* faulty variant: the end of the stream ends the interpreter
RlGetcharEofExits ==
    /\ pc = "rl_loop"
    /\ GetcharReady
    /\ stdin' = IF stdin # <<>> THEN Tail(stdin) ELSE stdin
    /\ IF Getchar = EOF
       THEN /\ Exit(EXIT_SUCCESS)
            /\ UNCHANGED << buffer, rl_position >>
       ELSE /\ UNCHANGED exitCode
            /\ IF Getchar = NEWLINE
               THEN /\ buffer' = Store(buffer, rl_position, NUL)
                    /\ pc' = "sl_malloc"
                    /\ UNCHANGED rl_position
               ELSE /\ buffer' = Store(buffer, rl_position, Getchar)
                    /\ rl_position' = rl_position + 1
                    /\ pc' = IF RlFull(rl_position + 1, rl_bufsize) THEN "rl_grow"
                             ELSE "rl_loop"
    /\ UNCHANGED << closed, typed, stream0, rl_bufsize, slVars, status,
                    cwd, procVars, sigchld, out, err, hist >>

\* one turn of the while (1) loop up to the capacity test
RlGetchar ==
    /\ pc = "rl_loop"
    /\ GetcharReady
    /\ stdin' = IF stdin # <<>> THEN Tail(stdin) ELSE stdin
    /\ IF RlEndOfLine(Getchar)
       THEN /\ buffer' = Store(buffer, rl_position, NUL)
            /\ pc' = LoopNext("lsh_read_line")
            /\ UNCHANGED rl_position
       ELSE /\ buffer' = Store(buffer, rl_position, Getchar)
            /\ rl_position' = rl_position + 1
            /\ pc' = IF RlFull(rl_position + 1, rl_bufsize) THEN "rl_grow" ELSE "rl_loop"
    /\ UNCHANGED << exitCode, closed, typed, stream0, rl_bufsize, slVars, status,
                    cwd, procVars, sigchld, out, err, hist >>

\* the body of if (position >= bufsize)
RlGrow ==
    /\ pc = "rl_grow"
    /\ rl_bufsize' = RlGrown(rl_bufsize)
    /\ \/ /\ buffer' = Realloc(buffer, RlGrown(rl_bufsize))
          /\ pc' = "rl_loop"
          /\ UNCHANGED << exitCode, err, hist >>
       \/ /\ buffer' = Free(buffer)
          /\ AllocationError("rl_realloc")
    /\ UNCHANGED << ioVars, rl_position, slVars, status, cwd, procVars,
                    sigchld, out >>

(***************************************************************************)
(* lsh_split_line.                                                         *)
(***************************************************************************)
\* faulty variant: position > bufsize
SlFullLate(position, bufsize) == position > bufsize

\* position >= bufsize
SlFull(position, bufsize) == position >= bufsize

\* bufsize += LSH_TOK_BUFSIZE
SlGrown(bufsize) == bufsize + LSH_TOK_BUFSIZE

\* token = strtok(from, LSH_TOK_DELIM), from being the line (index 0) or strtok's saved position
SlStrtok(from) ==
    LET r == Strtok(buffer.data, from)
    IN  /\ token' = r.tok
        /\ saveptr' = r.save
        /\ buffer' = [buffer EXCEPT !.data = r.data]

\* the declarations, malloc(bufsize * sizeof *tokens) and the first strtok
SlMalloc ==
    /\ pc = "sl_malloc"
    /\ tok_bufsize' = LSH_TOK_BUFSIZE
    /\ tok_position' = 0
    /\ \/ /\ tokens' = Malloc(LSH_TOK_BUFSIZE)
          /\ SlStrtok(0)
          /\ pc' = "sl_loop"
          /\ UNCHANGED << exitCode, err, hist >>
       \/ /\ tokens' = NoBlock
          /\ AllocationError("sl_malloc")
          /\ UNCHANGED << token, saveptr, buffer >>
    /\ UNCHANGED << ioVars, rl_bufsize, rl_position, status, cwd, procVars,
                    sigchld, out >>

\* the while (token != NULL) test, the store of the token, and after the loop the sentinel
SlLoop ==
    /\ pc = "sl_loop"
    /\ IF token # NULL
       THEN /\ tokens' = Store(tokens, tok_position, token)
            /\ tok_position' = tok_position + 1
            /\ pc' = IF SlFull(tok_position + 1, tok_bufsize) THEN "sl_grow" ELSE "sl_next"
       ELSE /\ tokens' = Store(tokens, tok_position, NULL)
            /\ pc' = LoopNext("lsh_split_line")
            /\ UNCHANGED tok_position
    /\ UNCHANGED << exitCode, ioVars, rlVars, tok_bufsize, token, saveptr, status, cwd,
                    procVars, sigchld, out, err, hist >>

\* the body of if (position >= bufsize)
SlGrow ==
    /\ pc = "sl_grow"
    /\ tok_bufsize' = SlGrown(tok_bufsize)
    /\ \/ /\ tokens' = Realloc(tokens, SlGrown(tok_bufsize))
          /\ pc' = "sl_next"
          /\ UNCHANGED << exitCode, err, hist >>
       \/ /\ tokens' = Free(tokens)
          /\ AllocationError("sl_realloc")
    /\ UNCHANGED << ioVars, rlVars, tok_position, token, saveptr, status, cwd,
                    procVars, sigchld, out >>

\* token = strtok(NULL, LSH_TOK_DELIM)
SlNext ==
    /\ pc = "sl_next"
    /\ SlStrtok(saveptr)
    /\ pc' = "sl_loop"
    /\ UNCHANGED << exitCode, ioVars, rl_bufsize, rl_position, tokens, tok_bufsize,
                    tok_position, status, cwd, procVars, sigchld, out, err, hist >>

(***************************************************************************)
(* The builtins.                                                           *)
(***************************************************************************)
\* args[i]
Arg(i) == tokens.data[i + 1]

\* the string args[i] points to, in the line
ArgStr(i) == CStr(buffer.data, Arg(i))

\* chdir(path) returns 0
ChdirOk(path) == path \in Dirs

\* faulty variant: no test of args[1]; chdir(NULL) fails
lsh_cd_NoArgCheck ==
    /\ hist' = [hist EXCEPT !.called = "lsh_cd", !.chdirTried = TRUE]
    /\ IF Arg(1) # NULL /\ ChdirOk(ArgStr(1))
       THEN /\ cwd' = ArgStr(1)
            /\ UNCHANGED err
       ELSE /\ err' = Append(err, "lsh: chdir error")
            /\ UNCHANGED cwd
    /\ status' = 1
    /\ UNCHANGED out

\* faulty variant: "cd" without an argument changes to the home directory
lsh_cd_ToHome ==
    /\ IF Arg(1) = NULL
       THEN /\ cwd' = HomeDir
            /\ hist' = [hist EXCEPT !.called = "lsh_cd"]
            /\ UNCHANGED err
       ELSE /\ hist' = [hist EXCEPT !.called = "lsh_cd", !.chdirTried = TRUE]
            /\ IF ChdirOk(ArgStr(1))
               THEN /\ cwd' = ArgStr(1)
                    /\ UNCHANGED err
               ELSE /\ err' = Append(err, "lsh: chdir error")
                    /\ UNCHANGED cwd
    /\ status' = 1
    /\ UNCHANGED out

lsh_cd ==
    /\ IF Arg(1) = NULL
       THEN /\ err' = Append(err, "lsh: expected argument to \"cd\"")
            /\ hist' = [hist EXCEPT !.called = "lsh_cd"]
            /\ UNCHANGED cwd
       ELSE /\ hist' = [hist EXCEPT !.called = "lsh_cd", !.chdirTried = TRUE]
            /\ IF ChdirOk(ArgStr(1))
               THEN /\ cwd' = ArgStr(1)
                    /\ UNCHANGED err
               ELSE /\ err' = Append(err, "lsh: chdir error")
                    /\ UNCHANGED cwd
    /\ status' = 1
    /\ UNCHANGED out

lsh_help ==
    /\ out' = out \o <<"Omer Hayat's LSH",
                       "Type program names and arguments, and hit enter.",
                       "The following are built-in:">>
                  \o [i \in 1..lsh_num_builtins |-> builtin_str[i]]
                  \o <<"Use the man command for information on other programs.">>
    /\ status' = 1
    /\ hist' = [hist EXCEPT !.called = "lsh_help"]
    /\ UNCHANGED << cwd, err >>

lsh_exit ==
    /\ status' = 0
    /\ hist' = [hist EXCEPT !.called = "lsh_exit"]
    /\ UNCHANGED << cwd, out, err >>

\* (*builtin_func[i])(args)
CallBuiltin(i) ==
    CASE builtin_func[i] = "lsh_cd" -> lsh_cd
      [] builtin_func[i] = "lsh_help" -> lsh_help
      [] builtin_func[i] = "lsh_exit" -> lsh_exit

(***************************************************************************)
(* lsh_execute.                                                            *)
(***************************************************************************)
\* faulty variant: strncmp(a, b, strlen(b)) == 0, so that b need only be a prefix of a
StrEqPrefix(a, b) == Len(a) >= Len(b) /\ SubSeq(a, 1, Len(b)) = b

\* strcmp(a, b) == 0
StrEq(a, b) == a = b

\* the first i with strcmp(args[0], builtin_str[i]) == 0, from 1; 0 when there is none
BuiltinIndex(name) ==
    IF \E i \in 1..lsh_num_builtins : StrEq(name, builtin_str[i])
    THEN CHOOSE i \in 1..lsh_num_builtins :
            /\ StrEq(name, builtin_str[i])
            /\ \A j \in 1..(i - 1) : ~StrEq(name, builtin_str[j])
    ELSE 0

\* faulty variant: no test of args[0]; an empty vector goes to the launcher
lsh_execute_NoEmptyTest ==
    /\ pc = "execute"
    /\ IF Arg(0) # NULL /\ BuiltinIndex(ArgStr(0)) # 0
       THEN /\ CallBuiltin(BuiltinIndex(ArgStr(0)))
            /\ pc' = LoopNext("lsh_execute")
       ELSE /\ pc' = "launch_fork"
            /\ hist' = [hist EXCEPT !.called = "lsh_launch"]
            /\ UNCHANGED << status, cwd, out, err >>
    /\ UNCHANGED << exitCode, ioVars, rlVars, slVars, procVars, sigchld >>

lsh_execute ==
    /\ pc = "execute"
    /\ IF Arg(0) = NULL
       THEN /\ status' = 1
            /\ pc' = LoopNext("lsh_execute")
            /\ UNCHANGED << cwd, out, err, hist >>
       ELSE IF BuiltinIndex(ArgStr(0)) # 0
       THEN /\ CallBuiltin(BuiltinIndex(ArgStr(0)))
            /\ pc' = LoopNext("lsh_execute")
       ELSE /\ pc' = "launch_fork"
            /\ hist' = [hist EXCEPT !.called = "lsh_launch"]
            /\ UNCHANGED << status, cwd, out, err >>
    /\ UNCHANGED << exitCode, ioVars, rlVars, slVars, procVars, sigchld >>

(***************************************************************************)
(* lsh_launch, the interpreter's side.                                     *)
(***************************************************************************)
\* WIFEXITED(status), WIFSIGNALED(status)
WIFEXITED(ws) == ws = "exited"
WIFSIGNALED(ws) == ws = "signaled"

\* the do ... while condition: !WIFEXITED(status) && !WIFSIGNALED(status)
WaitAgain(ws) == ~WIFEXITED(ws) /\ ~WIFSIGNALED(ws)

\* faulty variant: lsh_launch returns whether the child exited normally
LaunchResultFromStatus(ws) == IF WIFEXITED(ws) THEN 1 ELSE 0

\* what lsh_launch returns, status being ws
LaunchResult(ws) == 1

\* return from lsh_launch, back in lsh_loop
LaunchReturn ==
    /\ status' = LaunchResult(wstatus')
    /\ pc' = LoopNext("lsh_execute")

\* pid = fork() and the branch on pid, in the interpreter
LaunchFork ==
    /\ pc = "launch_fork"
    /\ \/ /\ pid' = NULL
          /\ err' = Append(err, "lsh: fork error")
          /\ hist' = [hist EXCEPT !.forkFailed = TRUE]
          /\ UNCHANGED << child, wstatus, sigchld >>
          /\ LaunchReturn
       \/ /\ pid' \in Pids
          /\ child' = [NoChild EXCEPT !.st = "shell", !.pid = pid', !.pc = "exec",
                                      !.argv0 = ArgStr(0), !.cwd = cwd]
          /\ wstatus' = "unset"
          /\ IF sigchld = "unobserved"
             THEN sigchld' \in {"default", "ignored"}
             ELSE UNCHANGED sigchld
          /\ hist' = [hist EXCEPT !.forked = TRUE]
          /\ pc' = "launch_wait"
          /\ UNCHANGED << status, err >>
    /\ UNCHANGED << exitCode, ioVars, rlVars, slVars, cwd, out >>

\* waitpid(pid, &status, WUNTRACED) and the loop test.  The call returns when the child
\* pid is stopped and that was not yet reported, when it is a zombie (which it reaps),
\* or, with -1 and status not written, when there is no such child to wait for.
LaunchWait ==
    /\ pc = "launch_wait"
    /\ child.pid = pid
    /\ \/ /\ child.st = "stopped" /\ child.unreported
          /\ wstatus' = "stopped"
          /\ child' = [child EXCEPT !.unreported = FALSE]
          /\ hist' = [hist EXCEPT !.waited = TRUE, !.waitFailed = FALSE,
                                  !.reported = "stopped"]
       \/ /\ child.st = "zombie"
          /\ wstatus' = child.how
          /\ child' = [child EXCEPT !.st = "gone"]
          /\ hist' = [hist EXCEPT !.waited = TRUE, !.waitFailed = FALSE,
                                  !.reported = child.how]
       \/ /\ child.st = "gone"
          /\ IF wstatus = "unset" THEN wstatus' \in WaitKinds ELSE UNCHANGED wstatus
          /\ hist' = [hist EXCEPT !.waited = TRUE, !.waitFailed = TRUE]
          /\ UNCHANGED child
    /\ IF WaitAgain(wstatus')
       THEN UNCHANGED << pc, status >>
       ELSE LaunchReturn
    /\ UNCHANGED << exitCode, ioVars, rlVars, slVars, cwd, pid, sigchld, out, err >>

(***************************************************************************)
(* lsh_launch, the child's side, and the program the child becomes.        *)
(***************************************************************************)
\* the child ends: with SIGCHLD ignored it leaves no zombie
ChildEnds(how, code) ==
    child' = [child EXCEPT !.st = IF sigchld = "ignored" THEN "gone" ELSE "zombie",
                           !.pc = "-", !.how = how, !.code = code, !.unreported = FALSE]

\* execvp(args[0], args) succeeds
ExecOk(prog) == prog \in Programs

\* faulty variant: no exit after perror, the child leaves the if and reaches return 1
ChildAfterPerrorFallsThrough == "return"

\* where the child goes after perror("lsh") in the pid == 0 branch
ChildAfterPerror == "exit"

\* if (execvp(args[0], args) == -1)
ChildExec ==
    /\ child.st = "shell" /\ child.pc = "exec"
    /\ IF ExecOk(child.argv0)
       THEN child' = [child EXCEPT !.st = "running", !.pc = "-"]
       ELSE child' = [child EXCEPT !.pc = "perror", !.execFailed = TRUE]
    /\ UNCHANGED << pc, exitCode, ioVars, rlVars, slVars, status, cwd, pid, wstatus,
                    sigchld, out, err, hist >>

\* perror("lsh") in the child
ChildPerror ==
    /\ child.st = "shell" /\ child.pc = "perror"
    /\ err' = Append(err, "lsh: execvp error")
    /\ child' = [child EXCEPT !.pc = ChildAfterPerror]
    /\ UNCHANGED << pc, exitCode, ioVars, rlVars, slVars, status, cwd, pid, wstatus,
                    sigchld, out, hist >>

\* exit(EXIT_FAILURE) in the child
ChildExit ==
    /\ child.st = "shell" /\ child.pc = "exit"
    /\ ChildEnds("exited", EXIT_FAILURE)
    /\ UNCHANGED << pc, exitCode, ioVars, rlVars, slVars, status, cwd, pid, wstatus,
                    sigchld, out, err, hist >>

\* the external program exits
ProgramExits ==
    /\ child.st = "running"
    /\ \E code \in ExitCodes : ChildEnds("exited", code)
    /\ UNCHANGED << pc, exitCode, ioVars, rlVars, slVars, status, cwd, pid, wstatus,
                    sigchld, out, err, hist >>

\* a signal kills the external program
ProgramKilled ==
    /\ child.st \in {"running", "stopped"}
    /\ \E sig \in Signals : ChildEnds("signaled", sig)
    /\ UNCHANGED << pc, exitCode, ioVars, rlVars, slVars, status, cwd, pid, wstatus,
                    sigchld, out, err, hist >>

\* a signal stops the external program
ProgramStopped ==
    /\ child.st = "running"
    /\ child' = [child EXCEPT !.st = "stopped", !.unreported = TRUE]
    /\ UNCHANGED << pc, exitCode, ioVars, rlVars, slVars, status, cwd, pid, wstatus,
                    sigchld, out, err, hist >>

\* SIGCONT resumes the external program
ProgramContinued ==
    /\ child.st = "stopped"
    /\ child' = [child EXCEPT !.st = "running", !.unreported = FALSE]
    /\ UNCHANGED << pc, exitCode, ioVars, rlVars, slVars, status, cwd, pid, wstatus,
                    sigchld, out, err, hist >>

(***************************************************************************)
(* lsh_loop, second half, and main.                                        *)
(***************************************************************************)
\* free(line)
FreeLine ==
    /\ pc = "free_line"
    /\ buffer' = Free(buffer)
    /\ pc' = LoopNext("free_line")
    /\ UNCHANGED << exitCode, ioVars, rl_bufsize, rl_position, slVars, status, cwd,
                    procVars, sigchld, out, err, hist >>

\* free(args)
FreeArgs ==
    /\ pc = "free_args"
    /\ tokens' = Free(tokens)
    /\ pc' = LoopNext("free_args")
    /\ UNCHANGED << exitCode, ioVars, rlVars, tok_bufsize, tok_position, token, saveptr,
                    status, cwd, procVars, sigchld, out, err, hist >>

\* faulty variant: while (!status)
LoopAgainNegated(st) == st = 0

\* while (status)
LoopAgain(st) == st # 0

\* faulty variant: main returns how the last command ended
MainReturnsLastStatus == Exit(IF wstatus \in {"unset", "exited"} THEN EXIT_SUCCESS ELSE EXIT_FAILURE)

\* lsh_loop returns to main; return EXIT_SUCCESS
MainReturn == Exit(EXIT_SUCCESS)

\* the loop test of lsh_loop; when it fails lsh_loop returns
LoopTest ==
    /\ pc = "loop_test"
    /\ IF LoopAgain(status)
       THEN /\ pc' = "prompt"
            /\ UNCHANGED exitCode
       ELSE MainReturn
    /\ UNCHANGED << ioVars, rlVars, slVars, status, cwd, procVars, sigchld, out, err,
                    hist >>

Next ==
    \/ Prompt
    \/ TerminalInput
    \/ RlMalloc
    \/ RlGetchar
    \/ RlGrow
    \/ SlMalloc
    \/ SlLoop
    \/ SlGrow
    \/ SlNext
    \/ lsh_execute
    \/ LaunchFork
    \/ LaunchWait
    \/ ChildExec
    \/ ChildPerror
    \/ ChildExit
    \/ ProgramExits
    \/ ProgramKilled
    \/ ProgramStopped
    \/ ProgramContinued
    \/ FreeLine
    \/ FreeArgs
    \/ LoopTest

Spec == Init /\ [][Next]_vars

\* the steps of the interpreter's process
InterpreterStep ==
    \/ Prompt
    \/ RlMalloc
    \/ RlGetchar
    \/ RlGrow
    \/ SlMalloc
    \/ SlLoop
    \/ SlGrow
    \/ SlNext
    \/ lsh_execute
    \/ LaunchFork
    \/ LaunchWait
    \/ FreeLine
    \/ FreeArgs
    \/ LoopTest

\* the steps of the child while it still runs the interpreter's code
ChildStep == ChildExec \/ ChildPerror \/ ChildExit

\* The system runs a process that can take a step: the interpreter and the child before
\* execvp are not starved.  Nothing is assumed of the terminal or of the programs run.
FairSpec == Init /\ [][Next]_vars /\ WF_vars(InterpreterStep) /\ WF_vars(ChildStep)

(***************************************************************************)
(* Reference definitions for the properties: what a line says, read off    *)
(* the typed characters alone.                                             *)
(***************************************************************************)
\* the delimiter characters: space, tab, carriage return, newline, bell
Delimiters == {" ", "\t", "\r", "\n", "BEL"}

\* the index of the first newline of s, Len(s) + 1 when it has none
NewlineAt(s) ==
    IF \E i \in 1..Len(s) : s[i] = "\n"
    THEN CHOOSE i \in 1..Len(s) : s[i] = "\n" /\ \A j \in 1..(i - 1) : s[j] # "\n"
    ELSE Len(s) + 1

\* the line the current read is to return: the input up to its first newline or its end
typedLine == SubSeq(stream0, 1, NewlineAt(stream0) - 1)

\* the input the current read is to leave unread
restOfInput == SubSeq(stream0, NewlineAt(stream0) + 1, Len(stream0))

\* the line holds no word
DelimOnly(l) == \A i \in 1..Len(l) : l[i] \in Delimiters

\* the positions (from 1) where a maximal run of non-delimiters starts
WordStarts(l) ==
    {i \in 1..Len(l) : l[i] \notin Delimiters /\ (i = 1 \/ l[i - 1] \in Delimiters)}

\* the maximal run of non-delimiters that starts at position i
WordAt(l, i) ==
    SubSeq(l, i, CHOOSE j \in i..Len(l) :
                    /\ j = Len(l) \/ l[j + 1] \in Delimiters
                    /\ \A k \in i..j : l[k] \notin Delimiters)

\* the k-th smallest element of a set of numbers
Nth(S, k) == CHOOSE x \in S : Cardinality({y \in S : y < x}) = k - 1

\* the words of the line, in order
Words(l) == [k \in 1..Cardinality(WordStarts(l)) |-> WordAt(l, Nth(WordStarts(l), k))]

\* the first word of a line that has one
FirstWord(l) ==
    WordAt(l, CHOOSE i \in 1..Len(l) :
                 l[i] \notin Delimiters /\ \A j \in 1..(i - 1) : l[j] \in Delimiters)

\* the first word of the line is exactly "exit"
IsExitLine(l) == ~DelimOnly(l) /\ FirstWord(l) = <<"e", "x", "i", "t">>

\* the first word of the line is exactly "cd"
IsCdLine(l) == ~DelimOnly(l) /\ FirstWord(l) = <<"c", "d">>

\* the second word of a line that has two
SecondWord(l) == WordAt(l, Nth(WordStarts(l), 2))

\* the strings joined with single spaces
RECURSIVE JoinSp(_)
JoinSp(ws) ==
    IF Len(ws) = 0 THEN <<>>
    ELSE IF Len(ws) = 1 THEN ws[1]
    ELSE ws[1] \o <<" ">> \o JoinSp(Tail(ws))

\* lsh_execute has returned to lsh_loop and the iteration is not over
Dispatched == pc \in {"free_line", "free_args", "loop_test"}

\* the strings of the vector's entries before its null sentinel, while the line is live
ArgStrings == [k \in 1..(Len(tokens.data) - 1) |-> CStr(buffer.data, tokens.data[k])]

(***************************************************************************)
(* C1. The loop stops after an iteration exactly when the iteration's      *)
(* dispatch status is 0, and the status is 0 exactly when the first word   *)
(* of the line is "exit" (alone or followed by more words); after every    *)
(* other line the status is 1 and the loop is back at the prompt.          *)
(***************************************************************************)
C1_LoopStopsIffExit ==
    /\ Dispatched =>
          /\ status \in {0, 1}
          /\ status = 0 <=> IsExitLine(typedLine)
    /\ (pc = "exited" /\ hist.allocFailed = "none") =>
          /\ status = 0
          /\ IsExitLine(typedLine)
    /\ (pc = "prompt" /\ buffer.st = "freed") =>
          /\ status = 1
          /\ ~IsExitLine(typedLine)

C1_Witness ==
    /\ pc = "exited"
    /\ exitCode = EXIT_SUCCESS
    /\ status = 0
    /\ typedLine = <<" ", "e", "x", "i", "t", " ", " ", "x">>

(***************************************************************************)
(* C2. In the parent branch of lsh_launch the wait loop ends only after a  *)
(* wait on the child's pid has reported that the child exited or was       *)
(* killed by a signal; a report that it is stopped never ends the loop.    *)
(* It fails when waitpid itself fails: the status is then read unwritten.  *)
(***************************************************************************)
C2_WaitEndsOnlyOnTerminalReport ==
    /\ (Dispatched /\ hist.forked) => hist.reported \in {"exited", "signaled"}
    /\ (hist.forked /\ hist.reported = "stopped") => pc = "launch_wait" /\ pid = child.pid

(***************************************************************************)
(* C3. When execvp fails in the child, the child reports the error and     *)
(* terminates with the failure exit code: while it runs the interpreter's  *)
(* image it is only ever at the execvp call, at perror or at exit, never   *)
(* in the wait loop or back in lsh_loop, and it never becomes a program.   *)
(***************************************************************************)
C3_ChildNeverReturns ==
    /\ child.st = "shell" => child.pc \in {"exec", "perror", "exit"}
    /\ child.execFailed =>
          /\ child.st \in {"shell", "zombie", "gone"}
          /\ child.st \in {"zombie", "gone"} =>
                /\ child.how = "exited"
                /\ child.code = EXIT_FAILURE
          /\ child.pc # "perror" => err = <<"lsh: execvp error">>

C3_Witness ==
    /\ child.execFailed
    /\ child.st = "zombie"
    /\ child.code = EXIT_FAILURE
    /\ pc = "launch_wait"

(***************************************************************************)
(* C4. lsh_launch returns 1 on every path that returns: when fork fails    *)
(* (one error report, no wait, no child) and when the child has ended,     *)
(* whatever its exit code or signal; an external command never stops the   *)
(* loop.                                                                   *)
(***************************************************************************)
C4_LaunchReturnsOne ==
    /\ hist.called = "lsh_launch" => pc # "exited"
    /\ (Dispatched /\ hist.called = "lsh_launch") =>
          /\ status = 1
          /\ hist.forkFailed # hist.forked
          /\ hist.forkFailed =>
                /\ err = <<"lsh: fork error">>
                /\ ~hist.waited
                /\ child = NoChild
          /\ hist.forked =>
                /\ hist.waited
                /\ child.st = "gone"
                /\ child.how \in {"exited", "signaled"}

C4_Witness ==
    /\ pc = "loop_test"
    /\ hist.called = "lsh_launch"
    /\ child.how = "signaled"
    /\ status = 1

(***************************************************************************)
(* C5. For a line that is empty or holds only delimiters, the vector's     *)
(* first entry is the null sentinel and lsh_execute returns 1 with no side *)
(* effect: no handler, no process, no output, no error report, and the     *)
(* working directory unchanged.                                            *)
(***************************************************************************)
C5_EmptyLineNoEffect ==
    (pc \in {"execute", "launch_fork", "launch_wait", "free_line", "free_args", "loop_test"}
        /\ DelimOnly(typedLine)) =>
        /\ pc \notin {"launch_fork", "launch_wait"}
        /\ tokens.data = <<NULL>>
        /\ Dispatched => status = 1
        /\ hist.called = "none"
        /\ ~hist.forked /\ ~hist.forkFailed /\ child = NoChild
        /\ out = <<"> ">>
        /\ err = <<>>
        /\ cwd = hist.cwd0

C5_Witness ==
    /\ typedLine = <<"\t", "BEL", "\r", " ">>
    /\ pc = "free_line"
    /\ status = 1

(***************************************************************************)
(* C6. lsh_split_line returns exactly the words of the line (its maximal   *)
(* runs of non-delimiters), in order, followed by the null sentinel: no    *)
(* empty token, and the entries joined with single spaces split into the   *)
(* same words again.                                                       *)
(***************************************************************************)
C6_TokensAreTheWords ==
    pc = "execute" =>
        /\ Len(tokens.data) = Cardinality(WordStarts(typedLine)) + 1
        /\ tokens.data[Len(tokens.data)] = NULL
        /\ tok_position = Len(tokens.data) - 1
        /\ \A k \in 1..(Len(tokens.data) - 1) : tokens.data[k] # NULL
        /\ ArgStrings = Words(typedLine)
        /\ Words(JoinSp(ArgStrings)) = Words(typedLine)

C6_Witness ==
    /\ pc = "execute"
    /\ typedLine = <<" ", "e", "x", "i", "t", " ", " ", "x">>
    /\ ArgStrings = << <<"e", "x", "i", "t">>, <<"x">> >>

(***************************************************************************)
(* C7. lsh_read_line returns exactly the characters of the stream before   *)
(* the first newline or the end of the stream, in order, terminated and    *)
(* without the newline, whatever the length, and leaves what follows the   *)
(* newline unread; the empty string at an immediate end of stream.         *)
(***************************************************************************)
C7_ReadLineReturnsTheLine ==
    pc = "sl_malloc" =>
        /\ buffer.st = "live"
        /\ buffer.data = typedLine \o <<NUL>>
        /\ stdin = restOfInput

C7_Witness ==
    /\ pc = "sl_malloc"
    /\ Len(typedLine) = LSH_RL_BUFSIZE + 1
    /\ buffer.data = typedLine \o <<NUL>>

(***************************************************************************)
(* C8. In lsh_read_line every write into the buffer, of a character or of  *)
(* the terminator, is at an index below the current capacity: the          *)
(* capacity test follows every store and precedes the next read.           *)
(***************************************************************************)
C8_ReadLineWritesInBounds ==
    /\ pc = "rl_loop" =>
          /\ buffer.st = "live"
          /\ buffer.cap = rl_bufsize
          /\ rl_position < rl_bufsize
          /\ Len(buffer.data) = rl_position
    /\ pc = "rl_grow" => rl_position = rl_bufsize

C8_Witness ==
    /\ pc = "rl_loop"
    /\ rl_position = LSH_RL_BUFSIZE
    /\ rl_bufsize = 2 * LSH_RL_BUFSIZE

(***************************************************************************)
(* C9. When an allocation or reallocation fails in lsh_read_line or        *)
(* lsh_split_line, the interpreter reports the error and terminates at     *)
(* once with the failure code: nothing is dispatched, no process created,  *)
(* no further prompt emitted; after a failed reallocation the block that   *)
(* failed to grow has been released.                                       *)
(***************************************************************************)
C9_AllocationFailureIsFatal ==
    hist.allocFailed # "none" =>
        /\ pc = "exited"
        /\ exitCode = EXIT_FAILURE
        /\ err = <<"lsh: allocation error">>
        /\ out = <<"> ">>
        /\ hist.called = "none"
        /\ ~hist.forked /\ child = NoChild
        /\ hist.allocFailed = "rl_malloc" => buffer.st = "none" /\ tokens.st # "live"
        /\ hist.allocFailed = "rl_realloc" => buffer.st = "freed" /\ tokens.st # "live"
        /\ hist.allocFailed = "sl_malloc" => tokens.st = "none"
        /\ hist.allocFailed = "sl_realloc" => tokens.st = "freed"

C9_Witness ==
    /\ hist.allocFailed = "sl_realloc"
    /\ pc = "exited"
    /\ tokens.st = "freed"

(***************************************************************************)
(* C10. For "cd" with no second word lsh_cd writes exactly one             *)
(* missing-argument message, attempts no directory change and returns 1;   *)
(* when a change is attempted and refused, exactly one OS error is         *)
(* reported, the working directory is unchanged and the status is 1.       *)
(***************************************************************************)
C10_CdFailures ==
    (Dispatched /\ IsCdLine(typedLine)) =>
        /\ hist.called = "lsh_cd"
        /\ status = 1
        /\ out = <<"> ">>
        /\ Cardinality(WordStarts(typedLine)) = 1 =>
              /\ err = <<"lsh: expected argument to \"cd\"">>
              /\ ~hist.chdirTried
              /\ cwd = hist.cwd0
        /\ (Cardinality(WordStarts(typedLine)) > 1 /\ SecondWord(typedLine) \notin Dirs) =>
              /\ err = <<"lsh: chdir error">>
              /\ hist.chdirTried
              /\ cwd = hist.cwd0

C10_Witness ==
    /\ Dispatched
    /\ typedLine = <<"c", "d", " ", "q">>
    /\ err = <<"lsh: chdir error">>
    /\ cwd = HomeDir

(***************************************************************************)
(* C11. The interpreter's working directory changes only in the dispatch   *)
(* of a line whose first word is "cd", that has a second word, and whose   *)
(* directory change the system accepts, and it then equals that word; no   *)
(* other step of the interpreter or of a child changes it; a child starts  *)
(* in the directory the interpreter is in when it creates the child, and   *)
(* the interpreter is still there for as long as that child is its child.  *)
(***************************************************************************)
C11_CwdChangesOnlyByCd ==
    /\ [](child.st # "none" => child.cwd = cwd)
    /\ [][child'.st # "none" /\ child.st = "none" => child'.cwd = cwd]_vars
    /\ [][cwd' # cwd =>
            /\ pc = "execute"
            /\ hist'.called = "lsh_cd"
            /\ hist'.chdirTried
            /\ IsCdLine(typedLine)
            /\ Cardinality(WordStarts(typedLine)) >= 2
            /\ SecondWord(typedLine) \in Dirs
            /\ cwd' = SecondWord(typedLine)]_vars

\* a child created after a successful "cd d" starts in d
C11_Witness ==
    /\ child.st = "running"
    /\ child.cwd = <<"d">>
    /\ cwd = <<"d">>
    /\ HomeDir # <<"d">>

(***************************************************************************)
(* C12. After a successful fork the interpreter stays in the wait loop of  *)
(* lsh_launch, emitting no prompt and reading no input, for as long as the *)
(* child has neither exited nor been killed; and once the child has        *)
(* terminated, whether before or after the interpreter's first wait,       *)
(* lsh_launch returns and the next prompt is emitted.                      *)
(***************************************************************************)
C12_LaunchReturnsWhenChildEnds ==
    /\ []((hist.forked /\ child.st \in {"shell", "running", "stopped"}) =>
             pc = "launch_wait")
    /\ (hist.forked /\ child.st \in {"zombie", "gone"}) ~> (pc = "prompt")

(***************************************************************************)
(* C13. For a line with at least one word lsh_execute does exactly one of  *)
(* two things.  When the first word equals a builtin name, whole string    *)
(* and case-sensitive, the handler at that name's index is the one called, *)
(* its status is the status of the dispatch, and no process is created.    *)
(* When it equals none ("CD", "cdx", "exi", ...) lsh_launch is called.     *)
(* The two tables have the same length and order, and the names differ.    *)
(***************************************************************************)
C13_DispatchByTable ==
    /\ Len(builtin_str) = Len(builtin_func)
    /\ lsh_num_builtins = Len(builtin_func)
    /\ \A i, j \in 1..Len(builtin_str) : builtin_str[i] = builtin_str[j] => i = j
    /\ builtin_str = << <<"c", "d">>, <<"h", "e", "l", "p">>, <<"e", "x", "i", "t">> >>
    /\ builtin_func = <<"lsh_cd", "lsh_help", "lsh_exit">>
    /\ (pc \in {"launch_fork", "launch_wait", "free_line", "free_args", "loop_test"}
          /\ ~DelimOnly(typedLine)) =>
          LET w == FirstWord(typedLine)
              matches == {i \in 1..Len(builtin_str) : builtin_str[i] = w}
          IN  /\ matches # {} =>
                    /\ \A i \in matches : hist.called = builtin_func[i]
                    /\ Dispatched
                    /\ ~hist.forked /\ ~hist.forkFailed /\ child = NoChild
                    /\ status = IF hist.called = "lsh_exit" THEN 0 ELSE 1
              /\ matches = {} =>
                    /\ hist.called = "lsh_launch"
                    /\ Dispatched => (hist.forked \/ hist.forkFailed)

\* "cdx" has gone to the launcher, "CD" likewise
C13_Witness ==
    /\ Dispatched
    /\ typedLine \in {<<"c", "d", "x">>, <<"C", "D">>}
    /\ hist.called = "lsh_launch"
    /\ hist.forked

(***************************************************************************)
(* C14, as claimed. Whenever the interpreter's process has exited, its     *)
(* exit code is the success code.                                          *)
(***************************************************************************)
C14_AlwaysExitsWithSuccess == pc = "exited" => exitCode = EXIT_SUCCESS

(***************************************************************************)
(* C14, amended. The interpreter's process exits with the success code     *)
(* whenever it ends by leaving the loop, whatever the commands it ran did  *)
(* (exit codes, terminating signals, failed builtins); the one other way   *)
(* it ends is a failed allocation, and then the exit code is the failure   *)
(* code.                                                                   *)
(***************************************************************************)
C14_ExitCodeIgnoresCommands ==
    pc = "exited" =>
        /\ exitCode \in {EXIT_SUCCESS, EXIT_FAILURE}
        /\ exitCode = EXIT_SUCCESS <=> hist.allocFailed = "none"
        /\ hist.allocFailed = "none" => hist.called = "lsh_exit"

\* the interpreter has left the loop with the success code after a command that was killed
C14_Witness ==
    /\ pc = "exited"
    /\ exitCode = EXIT_SUCCESS
    /\ hist.called = "lsh_exit"
    /\ wstatus = "signaled"

(***************************************************************************)
(* C15. In lsh_split_line every write into the pointer array, of a token   *)
(* or of the final null sentinel, is at an index below the array's current *)
(* capacity, whatever the number of tokens: the array grows as soon as it  *)
(* is full, before the next write.                                         *)
(***************************************************************************)
C15_SplitLineWritesInBounds ==
    /\ pc \in {"sl_loop", "sl_next"} =>
          /\ tokens.st = "live"
          /\ tokens.cap = tok_bufsize
          /\ tok_position < tok_bufsize
          /\ Len(tokens.data) = tok_position
    /\ pc = "sl_grow" =>
          /\ tok_position = tok_bufsize
          /\ tokens.cap = tok_bufsize
    /\ pc = "execute" =>
          /\ Len(tokens.data) = tok_position + 1
          /\ tok_position < tokens.cap
          /\ tokens.data[tok_position + 1] = NULL

\* a line of exactly LSH_TOK_BUFSIZE tokens: the sentinel went into the grown array
C15_Witness ==
    /\ pc = "execute"
    /\ tok_position = LSH_TOK_BUFSIZE
    /\ tok_bufsize = 2 * LSH_TOK_BUFSIZE
    /\ tokens.cap = 2 * LSH_TOK_BUFSIZE
    /\ tokens.data[LSH_TOK_BUFSIZE + 1] = NULL

(***************************************************************************)
(* C16. No entry of the argument vector is read after the line it points   *)
(* into has been released: wherever the dispatcher, a builtin or the       *)
(* launcher (up to the return of lsh_launch) is about to act, the line and *)
(* the vector are live and have never been released; once the line is      *)
(* released the interpreter only releases the vector's array, tests the    *)
(* status and starts over (or has exited).                                 *)
(***************************************************************************)
C16_NoTokenReadAfterLineFreed ==
    /\ pc \in {"execute", "launch_fork", "launch_wait"} =>
          /\ buffer.st = "live" /\ buffer.frees = 0
          /\ tokens.st = "live" /\ tokens.frees = 0
    /\ child.st = "shell" => buffer.st = "live" /\ tokens.st = "live"
    /\ buffer.st = "freed" =>
          pc \in {"free_args", "loop_test", "prompt", "rl_malloc", "exited"}
    /\ pc = "free_args" => buffer.st = "freed" /\ tokens.st = "live"

\* an external command was dispatched and launched, and only then the line was released
C16_Witness ==
    /\ pc = "free_args"
    /\ buffer.st = "freed"
    /\ tokens.st = "live"
    /\ hist.called = "lsh_launch"
    /\ hist.forked /\ hist.waited

(***************************************************************************)
(* C17. Every iteration whose dispatch returns releases the line and the   *)
(* vector's array exactly once each, whatever was dispatched: at the loop  *)
(* test, and so at the next prompt and when the loop has ended, both have  *)
(* been released once; no block is ever released twice, and no block of an *)
(* earlier iteration is live when the next one is allocated.               *)
(***************************************************************************)
C17_LineAndVectorFreedOnce ==
    /\ buffer.frees <= 1
    /\ tokens.frees <= 1
    /\ pc = "loop_test" =>
          /\ buffer.st = "freed" /\ buffer.frees = 1
          /\ tokens.st = "freed" /\ tokens.frees = 1
    /\ (pc = "exited" /\ hist.allocFailed = "none") =>
          /\ buffer.st = "freed" /\ buffer.frees = 1
          /\ tokens.st = "freed" /\ tokens.frees = 1
    /\ pc \in {"prompt", "rl_malloc"} => buffer.st # "live" /\ tokens.st # "live"
    /\ pc = "sl_malloc" => tokens.st # "live"

\* both were released once after a command that could not be executed
C17_Witness ==
    /\ pc = "loop_test"
    /\ hist.called = "lsh_launch"
    /\ child.execFailed
    /\ buffer.st = "freed" /\ buffer.frees = 1
    /\ tokens.st = "freed" /\ tokens.frees = 1

\* the current iteration found, or was handed, an ended stream with nothing left to read
EofIteration == closed /\ stream0 = <<>>

(***************************************************************************)
(* C18, as claimed: once the input stream has ended and all of it has been *)
(* read, the interpreter keeps reading empty lines and never terminates.   *)
(* Stated for the iterations that find the stream ended and empty: none of *)
(* them ends the interpreter.                                              *)
(***************************************************************************)
C18_NeverTerminatesAfterEof == EofIteration => pc # "exited"

(***************************************************************************)
(* C18, amended. At the end of the stream lsh_read_line returns what it    *)
(* has accumulated, possibly nothing, as the line.  Every iteration that   *)
(* finds the stream ended and empty reads the empty line, dispatches the   *)
(* empty command (nothing called, status 1), is never ended by the loop    *)
(* test and, unless one of its allocations fails, comes back to the        *)
(* prompt, from which the next such iteration starts.                      *)
(***************************************************************************)
C18_EofReadsEmptyLinesForever ==
    /\ []((closed /\ pc = "sl_malloc" /\ NewlineAt(stream0) > Len(stream0)) =>
             /\ buffer.st = "live"
             /\ buffer.data = stream0 \o <<NUL>>
             /\ stdin = <<>>)
    /\ [](EofIteration =>
             /\ stdin = <<>>
             /\ pc \in {"rl_malloc", "rl_loop", "sl_malloc", "sl_loop", "execute",
                        "free_line", "free_args", "loop_test", "prompt", "exited"}
             /\ pc \in {"sl_malloc", "sl_loop", "execute", "free_line"} =>
                   buffer.data = <<NUL>>
             /\ pc \in {"execute", "free_line", "free_args", "loop_test"} =>
                   tokens.data = <<NULL>> /\ hist.called = "none"
             /\ pc \in {"free_line", "free_args", "loop_test", "prompt"} => status = 1
             /\ pc = "exited" => hist.allocFailed # "none" /\ exitCode = EXIT_FAILURE)
    /\ (EofIteration /\ pc # "prompt") ~> (pc = "prompt" \/ hist.allocFailed # "none")
    /\ (EofIteration /\ pc = "prompt") ~> (pc = "rl_malloc")

\* an iteration after the stream ended has read the empty line and been dispatched
C18_Witness ==
    /\ EofIteration
    /\ pc = "loop_test"
    /\ typed >= 1
    /\ wstatus # "unset"
    /\ buffer.data = <<NUL>>
    /\ status = 1

(***************************************************************************)
(* C19. In the wait loop of lsh_launch the loop test only ever examines a  *)
(* status that a successful wait on the child has just written: the wait   *)
(* before the latest test did not fail, and the status tested is the one   *)
(* it reported.  It fails: waitpid's result is not tested, and when it     *)
(* fails the test reads a status that was never written or is left over.   *)
(***************************************************************************)
C19_LoopTestReadsWrittenStatus ==
    hist.waited =>
        /\ ~hist.waitFailed
        /\ wstatus = hist.reported

(***************************************************************************)
(* C20. lsh_launch and the builtin handlers are only ever called with a    *)
(* vector whose first entry is not null, whatever the line: the program    *)
(* name the child hands to execvp is a word of the line, and the entry     *)
(* lsh_cd reads, args[1], is at or before the vector's null sentinel.      *)
(***************************************************************************)
C20_HandlersGetNonEmptyVector ==
    /\ hist.called # "none" =>
          /\ Len(tokens.data) >= 2
          /\ Len(tokens.data) <= tokens.cap
          /\ tokens.data[1] # NULL
          /\ tokens.data[Len(tokens.data)] = NULL
          /\ \A k \in 1..(Len(tokens.data) - 1) : tokens.data[k] # NULL
    /\ pc \in {"launch_fork", "launch_wait"} =>
          hist.called = "lsh_launch" /\ Arg(0) # NULL
    /\ child.st # "none" =>
          /\ child.argv0 # <<>>
          /\ child.argv0 = FirstWord(typedLine)

\* "cd" alone: the entry lsh_cd read was the sentinel itself
C20_Witness ==
    /\ hist.called = "lsh_cd"
    /\ pc = "free_line"
    /\ Len(tokens.data) = 2
    /\ tokens.data[1] # NULL
    /\ tokens.data[2] = NULL

====
